---- MODULE Spec2Model ----
(***************************************************************************)
(* Model of Tracker.py (CA Titan study tracker).                           *)
(*                                                                         *)
(* Time is counted in whole seconds since an arbitrary midnight; a         *)
(* calendar day ("%Y-%m-%d") is the number of the day that holds the       *)
(* instant, so comparing two date strings is comparing two day numbers.    *)
(* Durations stored in the log (Duration_Mins, two decimals) are counted   *)
(* in hundredths of a minute.  A DataFrame is a record with a flag `cols`  *)
(* (does the frame have its columns) and the sequence `rows`.              *)
(* Columns no rule reads (Chapter, Est_Hours, Confidence, RTP_Done,        *)
(* MTP_Done) are left out of the topic rows.  `notice` is what the last    *)
(* run put on the page (st.error, st.toast, st.success, an uncaught        *)
(* exception); `timers` counts the presses of START TIMER and bounds them. *)
(***************************************************************************)
EXTENDS Integers, Sequences, FiniteSets, TLC

VARIABLES store, clock, start_time, end_time, show_save, cat, sub, top,
          is_new, notice, result, timers

vars == <<store, clock, start_time, end_time, show_save, cat, sub, top,
          is_new, notice, result, timers>>

session == <<start_time, end_time, show_save, cat, sub, top, is_new>>

(***************************************************************************)
(* Values                                                                  *)
(***************************************************************************)
DaySecs == 86400
MinuteSecs == 60
ToleranceMins == 10
SleepSecs == 1

None == 0 - 1
NaN == 0 - 1
Unparseable == 0 - 2

NoText == "-"

Categories == {"Study (Core)", "Classes", "Biological", "Logistics", "Wasted"}
Statuses == {"Pending", "Class Done", "Rev 1", "Rev 2", "Rev 3", "Mastered"}
DoneStatuses == {"Mastered", "Rev 3", "Rev 2", "Rev 1", "Class Done"}

\* "Study" in cat
HasStudy(c) == c = "Study (Core)"
\* "Class" in cat
HasClass(c) == c = "Classes"
\* "Rev" in status
HasRev(s) == s \in {"Rev 1", "Rev 2", "Rev 3"}

EmptyFrame == [cols |-> FALSE, rows |-> <<>>]
EmptyTable == [cols |-> TRUE, rows |-> <<>>]

\* df.empty
IsEmpty(df) == df.rows = <<>>

\* pd.concat([df, pd.DataFrame([row])], ignore_index=True)
Concat(df, row) == [cols |-> TRUE, rows |-> Append(df.rows, row)]

\* strftime("%Y-%m-%d") / .date() of an instant
DayOf(t) == t \div DaySecs

\* round(secs / 60, 2), in hundredths of a minute (secs * 100 / 60 is never
\* half way between two integers, so rounding is to the nearest one)
Round2Mins(secs) == (10 * secs + 3) \div 6

LogRow(d, s, e, c, sb, tp, dur, f, n) ==
    [Date |-> d, Start_Time |-> s, End_Time |-> e, Category |-> c,
     Subject |-> sb, Topic |-> tp, Duration_Mins |-> dur, Focus |-> f,
     Note |-> n]

TopicRow(sb, tp, st, rc, ls) ==
    [Subject |-> sb, Topic |-> tp, Status |-> st, Rev_Count |-> rc,
     Last_Studied |-> ls]

SeqsUpTo(S, n) == UNION {[1..k -> S] : k \in 0..n}

Indices(s) == 1..Len(s)

NotRun == [kind |-> "none"]

(***************************************************************************)
(* 3. INTELLIGENCE LOGIC                                                   *)
(***************************************************************************)

\* today_logs.sort_values('End_Time').iloc[-1]['End_Time']
LastEnd(today_logs) ==
    CHOOSE e \in {today_logs[i].End_Time : i \in Indices(today_logs)} :
        \A i \in Indices(today_logs) : today_logs[i].End_Time <= e

GapRow(today_str, last_end, current_start_time) ==
    LogRow(today_str, last_end, current_start_time, "WASTED", "-",
           "UNACCOUNTED GAP", Round2Mins(current_start_time - last_end), 0,
           "Strict Mode Auto-Detect")

\* variant: the comparison with the tolerance is not strict
check_strict_gaps_ge(logs_df, current_start_time) ==
    IF IsEmpty(logs_df) THEN [logs |-> logs_df, gap |-> 0]
    ELSE LET today_str == DayOf(current_start_time)
             today_logs == SelectSeq(logs_df.rows,
                                     LAMBDA r : r.Date = today_str)
         IN  IF today_logs = <<>> THEN [logs |-> logs_df, gap |-> 0]
             ELSE LET last_end == LastEnd(today_logs)
                      gap_secs == current_start_time - last_end
                  IN  IF gap_secs >= ToleranceMins * MinuteSecs
                      THEN [logs |-> Concat(logs_df,
                                GapRow(today_str, last_end,
                                       current_start_time)),
                            gap |-> gap_secs]
                      ELSE [logs |-> logs_df, gap |-> 0]

\* variant: the last row of today's log is taken without sorting by End_Time
check_strict_gaps_nosort(logs_df, current_start_time) ==
    IF IsEmpty(logs_df) THEN [logs |-> logs_df, gap |-> 0]
    ELSE LET today_str == DayOf(current_start_time)
             today_logs == SelectSeq(logs_df.rows,
                                     LAMBDA r : r.Date = today_str)
         IN  IF today_logs = <<>> THEN [logs |-> logs_df, gap |-> 0]
             ELSE LET last_end == today_logs[Len(today_logs)].End_Time
                      gap_secs == current_start_time - last_end
                  IN  IF gap_secs > ToleranceMins * MinuteSecs
                      THEN [logs |-> Concat(logs_df,
                                GapRow(today_str, last_end,
                                       current_start_time)),
                            gap |-> gap_secs]
                      ELSE [logs |-> logs_df, gap |-> 0]

\* Returns the log table and the gap; the gap (gap_mins in the code) is kept
\* in seconds here, gap_mins = gap / 60.
check_strict_gaps(logs_df, current_start_time) ==
    IF IsEmpty(logs_df) THEN [logs |-> logs_df, gap |-> 0]
    ELSE LET today_str == DayOf(current_start_time)
             today_logs == SelectSeq(logs_df.rows,
                                     LAMBDA r : r.Date = today_str)
         IN  IF today_logs = <<>> THEN [logs |-> logs_df, gap |-> 0]
             ELSE LET last_end == LastEnd(today_logs)
                      gap_secs == current_start_time - last_end
                  IN  IF gap_secs > ToleranceMins * MinuteSecs
                      THEN [logs |-> Concat(logs_df,
                                GapRow(today_str, last_end,
                                       current_start_time)),
                            gap |-> gap_secs]
                      ELSE [logs |-> logs_df, gap |-> 0]

\* variant: the last bucket is tested with == instead of >=
IsDue_eq3(cnt, gap) ==
    \/ cnt = 0 /\ gap >= 1
    \/ cnt = 1 /\ gap >= 3
    \/ cnt = 2 /\ gap >= 7
    \/ cnt = 3 /\ gap >= 15

\* the condition of line 182
IsDue(cnt, gap) ==
    \/ cnt = 0 /\ gap >= 1
    \/ cnt = 1 /\ gap >= 3
    \/ cnt = 2 /\ gap >= 7
    \/ cnt >= 3 /\ gap >= 15

\* f"{row['Subject']} - {row['Topic']}"
TopicLabel(row) == <<row.Subject, row.Topic>>

RECURSIVE ScanAlerts(_, _)
\* the loop of lines 177-183 over the rows that are left
ScanAlerts(valid_rows, today) ==
    IF valid_rows = <<>> THEN <<>>
    ELSE LET row == Head(valid_rows)
             gap == today - row.Last_Studied
             rest == ScanAlerts(Tail(valid_rows), today)
         IN  IF IsDue(row.Rev_Count, gap) THEN <<TopicLabel(row)>> \o rest
             ELSE rest

\* pd.to_datetime raises on a value it cannot parse; nothing catches it
get_revision_alerts(master_df, now) ==
    IF IsEmpty(master_df) THEN [kind |-> "alerts", alerts |-> <<>>]
    ELSE LET today == DayOf(now)
             valid_rows == SelectSeq(master_df.rows,
                                     LAMBDA r : r.Last_Studied # NaN)
         IN  IF \E i \in Indices(valid_rows) :
                    valid_rows[i].Last_Studied = Unparseable
             THEN [kind |-> "raise", exc |-> "ParserError"]
             ELSE [kind |-> "alerts", alerts |-> ScanAlerts(valid_rows, today)]

\* logs_df['Date'].min()
MinDate(logs_df) ==
    CHOOSE d \in {logs_df.rows[i].Date : i \in Indices(logs_df.rows)} :
        \A i \in Indices(logs_df.rows) : d <= logs_df.rows[i].Date

calculate_velocity(master_df, logs_df, now) ==
    IF IsEmpty(master_df) \/ IsEmpty(logs_df)
    THEN [kind |-> "text", text |-> "N/A"]
    ELSE LET done_count == Cardinality({i \in Indices(master_df.rows) :
                               master_df.rows[i].Status \in DoneStatuses})
             total_count == Len(master_df.rows)
         IN  IF done_count = 0
             THEN [kind |-> "text", text |-> "Calculating..."]
             ELSE LET start_date == MinDate(logs_df)
                      days_passed == (DayOf(now) - start_date) + 1
                  IN  IF days_passed = 0
                      THEN \* done_count / days_passed
                           [kind |-> "raise", exc |-> "ZeroDivisionError"]
                      ELSE IF done_count * days_passed <= 0
                      THEN \* rate <= 0
                           [kind |-> "text", text |-> "Stalled"]
                      ELSE \* days_needed = (total - done) / rate, as seconds
                           LET needed_secs ==
                                   ((total_count - done_count) * days_passed
                                        * DaySecs) \div done_count
                           IN  [kind |-> "date",
                                day |-> DayOf(now + needed_secs)]

(***************************************************************************)
(* Specifications of the three rules: the tables and the instant are drawn *)
(* from bounded sets and the rule is applied once.                         *)
(***************************************************************************)
MaxLogLen == 2
MaxTopicLen == 2
MaxRev == 4
MaxDone == 5
MaxPending == 5

Today == 20
Noon == Today * DaySecs + 43200

IdleSession ==
    /\ start_time = None /\ end_time = None /\ show_save = FALSE
    /\ cat = NoText /\ sub = NoText /\ top = NoText /\ is_new = FALSE
    /\ notice = {}
    /\ timers = 0

\* ---- check_strict_gaps ----
GapDates == {Today - 1, Today}
GapEnds == {Noon + 1000, Noon + 2000, Noon + 2001}
GapNows == {Noon + 900, Noon + 2000, Noon + 2600, Noon + 2601, Noon + 2602,
            Noon + 3000}
GapLogRows ==
    {LogRow(d, e - 300, e, "Biological", "-", "Sleep", 500, 0, "") :
        d \in GapDates, e \in GapEnds}

InitGap ==
    /\ IdleSession
    /\ result = NotRun
    /\ clock \in GapNows
    /\ \E rows \in SeqsUpTo(GapLogRows, MaxLogLen) :
           store = [master |-> EmptyTable,
                    logs |-> [cols |-> TRUE, rows |-> rows]]

RunGap ==
    /\ result = NotRun
    /\ LET r == check_strict_gaps(store.logs, clock)
       IN  result' = [kind |-> "gap", logs |-> r.logs, gap |-> r.gap]
    /\ UNCHANGED <<store, clock, session, notice, timers>>

SpecGap == InitGap /\ [][RunGap]_vars

\* ---- get_revision_alerts ----
RevGaps == {0 - 1, 0, 1, 2, 3, 6, 7, 14, 15}
RevTopicRows ==
    {TopicRow("Audit", "SA 200", "Rev 1", rc, ls) :
        rc \in 0..MaxRev,
        ls \in {NaN, Unparseable} \cup {Today - g : g \in RevGaps}}

InitRev ==
    /\ IdleSession
    /\ result = NotRun
    /\ clock = Noon
    /\ \E rows \in SeqsUpTo(RevTopicRows, MaxTopicLen) :
           store = [master |-> [cols |-> TRUE, rows |-> rows],
                    logs |-> EmptyTable]

RunRev ==
    /\ result = NotRun
    /\ result' = get_revision_alerts(store.master, clock)
    /\ UNCHANGED <<store, clock, session, notice, timers>>

SpecRev == InitRev /\ [][RunRev]_vars

\* ---- calculate_velocity ----
VelDates == {Today - 9, Today - 1, Today, Today + 1, Today + 2}
VelNows == {Today * DaySecs, Noon, Today * DaySecs + 80000}
VelLogRows ==
    {LogRow(d, d * DaySecs, d * DaySecs + 300, "Biological", "-", "Sleep",
            500, 0, "") : d \in VelDates}
\* a table of d done topics followed by p pending ones
VelMaster(d, p, st) ==
    [cols |-> TRUE,
     rows |-> [i \in 1..(d + p) |->
                  TopicRow("Audit", "SA 200",
                           IF i <= d THEN st ELSE "Pending", 0, NaN)]]

InitVel ==
    /\ IdleSession
    /\ result = NotRun
    /\ clock \in VelNows
    /\ \E d \in 0..MaxDone, p \in 0..MaxPending, st \in DoneStatuses,
          rows \in SeqsUpTo(VelLogRows, MaxLogLen) :
           store = [master |-> VelMaster(d, p, st),
                    logs |-> [cols |-> TRUE, rows |-> rows]]

RunVel ==
    /\ result = NotRun
    /\ result' = calculate_velocity(store.master, store.logs, clock)
    /\ UNCHANGED <<store, clock, session, notice, timers>>

SpecVel == InitVel /\ [][RunVel]_vars

(***************************************************************************)
(* Properties of the three rules                                           *)
(***************************************************************************)
\* End_Time of the rows of the stored log dated on the day of the clock
TodayEnds ==
    {store.logs.rows[i].End_Time :
        i \in {j \in Indices(store.logs.rows) :
                  store.logs.rows[j].Date = DayOf(clock)}}

IsLatest(e) == e \in TodayEnds /\ \A x \in TodayEnds : x <= e

\* C1: when the log holds a session dated today and new_start minus the
\* latest End_Time of today's sessions exceeds 10 minutes, check_strict_gaps
\* appends exactly one record: Category WASTED, Topic UNACCOUNTED GAP,
\* Start_Time the latest end, End_Time new_start, Focus 0 and Duration_Mins
\* the gap to within the rounding to two decimals; the records that were
\* there are unchanged.
C1_GapRecordAppended ==
    result.kind = "gap" =>
        \A e \in TodayEnds :
            (IsLatest(e) /\ clock - e > ToleranceMins * MinuteSecs) =>
                LET old == store.logs.rows
                    new == result.logs.rows
                IN  /\ Len(new) = Len(old) + 1
                    /\ SubSeq(new, 1, Len(old)) = old
                    /\ new[Len(new)].Category = "WASTED"
                    /\ new[Len(new)].Topic = "UNACCOUNTED GAP"
                    /\ new[Len(new)].Start_Time = e
                    /\ new[Len(new)].End_Time = clock
                    /\ new[Len(new)].Focus = 0
                    /\ new[Len(new)].Duration_Mins * 6 - (clock - e) * 10 \in (0 - 3)..3

C1_Witness ==
    /\ result.kind = "gap"
    /\ Len(store.logs.rows) = 2
    /\ store.logs.rows[1].End_Time > store.logs.rows[2].End_Time
    /\ store.logs.rows[1].Date = DayOf(clock)
    /\ store.logs.rows[2].Date = DayOf(clock)
    /\ clock - store.logs.rows[1].End_Time = 601
    /\ Len(result.logs.rows) = 3
    /\ result.logs.rows[3].Duration_Mins = 1002

\* C2: check_strict_gaps creates a record only if a session is dated today
\* and the gap exceeds the tolerance; for a gap of at most 10 minutes
\* (10 exactly, 0, negative) and for a log without a session dated today
\* (the empty log included) it returns the log unchanged and gap 0.
C2_NoGapNoRecord ==
    result.kind = "gap" =>
        /\ (\/ TodayEnds = {}
            \/ \E e \in TodayEnds :
                   IsLatest(e) /\ clock - e <= ToleranceMins * MinuteSecs)
              => (result.logs = store.logs /\ result.gap = 0)
        /\ result.logs # store.logs
              => \E e \in TodayEnds :
                     IsLatest(e) /\ clock - e > ToleranceMins * MinuteSecs
        /\ \A i \in Indices(result.logs.rows) :
               i > Len(store.logs.rows) => result.logs.rows[i].Duration_Mins > 0

C2_Witness ==
    /\ result.kind = "gap"
    /\ \E e \in TodayEnds :
           IsLatest(e) /\ clock - e = ToleranceMins * MinuteSecs
    /\ result.logs = store.logs
    /\ result.gap = 0

Thresholds == <<1, 3, 7, 15>>

Min(a, b) == IF a <= b THEN a ELSE b

\* the cadence rule as the specification words it
DueByTable(row, today) ==
    /\ row.Last_Studied \notin {NaN, Unparseable}
    /\ today - row.Last_Studied >= Thresholds[Min(row.Rev_Count, 3) + 1]

ExpectedAlerts(rows, today) ==
    LET due == SelectSeq(rows, LAMBDA r : DueByTable(r, today))
    IN  [i \in Indices(due) |-> TopicLabel(due[i])]

WellFormed(rows) ==
    \A i \in Indices(rows) : rows[i].Last_Studied # Unparseable

\* C3: every topic with a Last_Studied date is reported as due exactly when
\* today - Last_Studied is at least [1, 3, 7, 15][min(Rev_Count, 3)]; so for
\* one Rev_Count a topic studied longer ago than a due one is due as well,
\* and a Rev_Count above 3 behaves like 3.
C3_RevisionRule ==
    (result # NotRun /\ WellFormed(store.master.rows)) =>
        /\ result.kind = "alerts"
        /\ result.alerts = ExpectedAlerts(store.master.rows, DayOf(clock))
        /\ \A i, j \in Indices(store.master.rows) :
               LET a == store.master.rows[i]
                   b == store.master.rows[j]
               IN  (/\ a.Last_Studied # NaN /\ b.Last_Studied # NaN
                    /\ Min(a.Rev_Count, 3) = Min(b.Rev_Count, 3)
                    /\ b.Last_Studied < a.Last_Studied
                    /\ IsDue(a.Rev_Count, DayOf(clock) - a.Last_Studied))
                   => IsDue(b.Rev_Count, DayOf(clock) - b.Last_Studied)

C3_Witness ==
    /\ result.kind = "alerts"
    /\ Len(store.master.rows) = 2
    /\ store.master.rows[1].Rev_Count = 4
    /\ store.master.rows[1].Last_Studied = Today - 15
    /\ store.master.rows[2].Rev_Count = 3
    /\ store.master.rows[2].Last_Studied = Today - 14
    /\ Len(result.alerts) = 1

\* C4: a topic whose Last_Studied is absent or unparseable is never reported
\* and does not make get_revision_alerts raise: the other topics of the
\* table are still reported by the cadence rule.
C4_MalformedTopicsSkipped ==
    result # NotRun =>
        /\ result.kind = "alerts"
        /\ result.alerts = ExpectedAlerts(store.master.rows, DayOf(clock))

DoneCount == Cardinality({i \in Indices(store.master.rows) :
                 store.master.rows[i].Status \in DoneStatuses})

\* C5: calculate_velocity returns an insufficient-data outcome when the
\* topic table is empty, no topic is done or the log is empty; else, with
\* days_passed = (today - first_log_date) + 1 and rate = done / days_passed,
\* 'Stalled' when rate <= 0 and else the date today + (total - done) / rate;
\* for every first_log_date, days_passed = 0 included, and never an error.
C5_VelocityProjection ==
    result # NotRun =>
        /\ result.kind \in {"text", "date"}
        /\ IF IsEmpty(store.master) \/ IsEmpty(store.logs) \/ DoneCount = 0
           THEN result.kind = "text" /\ result.text \in {"N/A", "Calculating..."}
           ELSE LET days_passed == (DayOf(clock) - MinDate(store.logs)) + 1
                    left == Len(store.master.rows) - DoneCount
                IN  /\ days_passed < 0 =>
                           (result.kind = "text" /\ result.text = "Stalled")
                    /\ days_passed = 0 =>
                           (result.kind = "date" \/ result.text = "Stalled")
                    /\ days_passed > 0 =>
                           /\ result.kind = "date"
                           /\ (result.day - DayOf(clock)) * DoneCount
                                  >= left * days_passed - (DoneCount - 1)
                           /\ (result.day - DayOf(clock) - 1) * DoneCount
                                  <= left * days_passed

(***************************************************************************)
(* 2. DATABASE ENGINE: the Excel file is `store`                           *)
(***************************************************************************)
ReadError == "Database Read Error"
SaveFailed == "Save Failed"
GapToast == "Strict Mode: mins marked WASTED!"
SavedOK == "Saved Successfully!"
KeyError == "KeyError: 'Subject'"

\* ok = FALSE: reading the file raises, load_db reports it and returns two
\* frames without columns
load_db(ok) ==
    IF ok THEN [master |-> store.master, logs |-> store.logs, err |-> {}]
    ELSE [master |-> EmptyFrame, logs |-> EmptyFrame, err |-> {ReadError}]

\* the content of the file after save_db(master, logs); ok = FALSE: the
\* writer raises (file locked), the file keeps its content, False is returned
save_db(master, logs, ok) ==
    IF ok THEN [master |-> master, logs |-> logs] ELSE store

(***************************************************************************)
(* 4. APP INTERFACE, TAB 2: TRACKER                                        *)
(***************************************************************************)
\* the categories and statuses the model chooses among ("Logistics" and
\* "Wasted" are handled as "Biological", "Class Done" as "Mastered", "Rev 3"
\* as "Rev 2")
CategoryChoices == {"Study (Core)", "Classes", "Biological"}
StatusChoices == {"Pending", "Rev 1", "Rev 2", "Mastered"}
NewTopicNames == {"SA 300"}
ActivityTexts == {"Sleep"}
FocusLevels == {4}

Subjects(master_df) ==
    {master_df.rows[i].Subject : i \in Indices(master_df.rows)}

TopicsOf(master_df, sb) ==
    {master_df.rows[i].Topic :
        i \in {j \in Indices(master_df.rows) : master_df.rows[j].Subject = sb}}

\* the choices the idle screen offers (lines 297-322)
Selectable(master_df, c, sb, tp, nw) ==
    IF HasStudy(c) \/ HasClass(c)
    THEN IF ~IsEmpty(master_df)
         THEN /\ sb \in Subjects(master_df)
              /\ \/ tp \in TopicsOf(master_df, sb) /\ nw = FALSE
                 \/ tp \in NewTopicNames /\ nw = TRUE
         ELSE sb = NoText /\ tp = NoText /\ nw = FALSE
    ELSE sb = NoText /\ tp \in ActivityTexts /\ nw = FALSE

SubjectChoices == {NoText, "Audit"}
TopicChoices == {NoText, "SA 200"} \cup NewTopicNames \cup ActivityTexts

MaxTimers == 2
ClockSpan == 610
Steps == {300, 601}
T0 == (Today + 1) * DaySecs - 700
MaxClock == T0 + ClockSpan

\* START TIMER (lines 325-341), with the load_db of the script run (214)
StartTimer(c, sb, tp, nw, loadOK, saveOK) ==
    /\ start_time = None
    /\ timers < MaxTimers
    /\ timers' = timers + 1
    /\ LET db == load_db(loadOK)
           now == clock
           g == check_strict_gaps(db.logs, now)
       IN  /\ Selectable(db.master, c, sb, tp, nw)
           /\ store' = IF g.gap > 0 THEN save_db(db.master, g.logs, saveOK)
                       ELSE store
           /\ notice' = db.err \cup
                        (IF g.gap > 0
                         THEN {GapToast} \cup
                              (IF saveOK THEN {} ELSE {SaveFailed})
                         ELSE {})
           /\ start_time' = now
    /\ cat' = c
    /\ sub' = sb
    /\ top' = tp
    /\ is_new' = nw
    /\ UNCHANGED <<clock, end_time, show_save, result>>

\* STOP & LOG (lines 355-358); the button is drawn whenever a timer runs
StopAndLog ==
    /\ start_time # None
    /\ end_time' = clock
    /\ show_save' = TRUE
    /\ notice' = {}
    /\ UNCHANGED <<store, clock, start_time, cat, sub, top, is_new, result, timers>>

\* m_df[mask].index[0]
FirstMatch(rows, sb, tp) ==
    CHOOSE i \in Indices(rows) :
        /\ rows[i].Subject = sb /\ rows[i].Topic = tp
        /\ \A j \in 1..(i - 1) : ~(rows[j].Subject = sb /\ rows[j].Topic = tp)

\* 2. Update Master (lines 401-423)
UpdateMaster(m_df, status, today_str) ==
    IF ~HasStudy(cat) THEN [raise |-> FALSE, master |-> m_df]
    ELSE IF is_new
    THEN [raise |-> FALSE,
          master |-> Concat(m_df, TopicRow(sub, top, status, 0, today_str))]
    ELSE IF ~m_df.cols
    THEN \* m_df['Subject'] on a frame without columns
         [raise |-> TRUE, master |-> m_df]
    ELSE IF \E i \in Indices(m_df.rows) :
                m_df.rows[i].Subject = sub /\ m_df.rows[i].Topic = top
    THEN LET idx == FirstMatch(m_df.rows, sub, top)
             old == m_df.rows[idx]
             row == [old EXCEPT
                        !.Status = status,
                        !.Last_Studied = today_str,
                        !.Rev_Count = IF HasRev(status) THEN @ + 1 ELSE @]
         IN  [raise |-> FALSE,
              master |-> [m_df EXCEPT !.rows[idx] = row]]
    ELSE [raise |-> FALSE, master |-> m_df]

NewLog(focus) ==
    LogRow(DayOf(start_time), start_time, end_time, cat, sub, top,
           Round2Mins(end_time - start_time), focus, "")

\* variant: the timer is not reset after a successful save
ConfirmSave_keep(status, focus, loadOK, saveOK) ==
    /\ show_save = TRUE
    /\ IF HasStudy(cat) THEN focus \in FocusLevels /\ status \in StatusChoices
       ELSE focus = 0 /\ status = NoText
    /\ LET db == load_db(loadOK)
           l_df == Concat(db.logs, NewLog(focus))
           m == UpdateMaster(db.master, status, DayOf(clock))
       IN  IF m.raise
           THEN /\ notice' = db.err \cup {KeyError}
                /\ UNCHANGED <<store, clock, session, result, timers>>
           ELSE IF saveOK
           THEN /\ clock + SleepSecs <= MaxClock
                /\ store' = save_db(m.master, l_df, TRUE)
                /\ notice' = db.err \cup {SavedOK}
                /\ clock' = clock + SleepSecs
                /\ UNCHANGED <<session, result, timers>>
           ELSE /\ notice' = db.err \cup {SaveFailed}
                /\ UNCHANGED <<store, clock, session, result, timers>>

\* variant: the timer is reset whatever save_db returns
ConfirmSave_reset(status, focus, loadOK, saveOK) ==
    /\ show_save = TRUE
    /\ IF HasStudy(cat) THEN focus \in FocusLevels /\ status \in StatusChoices
       ELSE focus = 0 /\ status = NoText
    /\ LET db == load_db(loadOK)
           l_df == Concat(db.logs, NewLog(focus))
           m == UpdateMaster(db.master, status, DayOf(clock))
       IN  IF m.raise
           THEN /\ notice' = db.err \cup {KeyError}
                /\ UNCHANGED <<store, clock, session, result, timers>>
           ELSE /\ clock + SleepSecs <= MaxClock
                /\ store' = save_db(m.master, l_df, saveOK)
                /\ notice' = db.err \cup
                             (IF saveOK THEN {SavedOK} ELSE {SaveFailed})
                /\ start_time' = None
                /\ show_save' = FALSE
                /\ clock' = clock + SleepSecs
                /\ UNCHANGED <<end_time, cat, sub, top, is_new, result, timers>>

\* CONFIRM & SAVE (lines 383-431)
ConfirmSave(status, focus, loadOK, saveOK) ==
    /\ show_save = TRUE
    /\ IF HasStudy(cat) THEN focus \in FocusLevels /\ status \in StatusChoices
       ELSE focus = 0 /\ status = NoText
    /\ LET db == load_db(loadOK)
           l_df == Concat(db.logs, NewLog(focus))
           m == UpdateMaster(db.master, status, DayOf(clock))
       IN  IF m.raise
           THEN /\ notice' = db.err \cup {KeyError}
                /\ UNCHANGED <<store, clock, session, result, timers>>
           ELSE IF saveOK
           THEN /\ clock + SleepSecs <= MaxClock
                /\ store' = save_db(m.master, l_df, TRUE)
                /\ notice' = db.err \cup {SavedOK}
                /\ start_time' = None
                /\ show_save' = FALSE
                /\ clock' = clock + SleepSecs
                /\ UNCHANGED <<end_time, cat, sub, top, is_new, result, timers>>
           ELSE /\ notice' = db.err \cup {SaveFailed}
                /\ UNCHANGED <<store, clock, session, result, timers>>

\* wall-clock time passes between two presses
Tick(d) ==
    /\ clock + d <= MaxClock
    /\ clock' = clock + d
    /\ UNCHANGED <<store, session, notice, result, timers>>

SeedMasters ==
    {EmptyTable,
     [cols |-> TRUE,
      rows |-> <<TopicRow("Audit", "SA 200", "Rev 1", 1, Today)>>]}

\* the file as init_db leaves it, or with a syllabus typed into the Master
\* sheet; no timer, nothing logged
Init ==
    /\ IdleSession
    /\ result = NotRun
    /\ clock = T0
    /\ \E m \in SeedMasters : store = [master |-> m, logs |-> EmptyTable]

Next ==
    \/ \E c \in CategoryChoices, sb \in SubjectChoices, tp \in TopicChoices,
          nw \in BOOLEAN, loadOK \in BOOLEAN, saveOK \in BOOLEAN :
           StartTimer(c, sb, tp, nw, loadOK, saveOK)
    \/ StopAndLog
    \/ \E status \in StatusChoices \cup {NoText}, focus \in FocusLevels \cup {0},
          loadOK \in BOOLEAN, saveOK \in BOOLEAN :
           ConfirmSave(status, focus, loadOK, saveOK)
    \/ \E d \in Steps : Tick(d)

Spec == Init /\ [][Next]_vars

(***************************************************************************)
(* Properties of the timer                                                 *)
(***************************************************************************)
\* a START TIMER press that detected a gap
StartDetectedGap ==
    start_time = None /\ start_time' # None /\ GapToast \in notice'

\* C6: when START TIMER detects a gap above the tolerance, the gap record is
\* in the store before the timed session begins (start_time set), also when
\* save_db fails.
C6_GapStoredBeforeTimer ==
    [][StartDetectedGap =>
          \E i \in Indices(store'.logs.rows) :
              /\ store'.logs.rows[i].Category = "WASTED"
              /\ store'.logs.rows[i].End_Time = start_time']_vars

\* the rows of a log table that record the timer session started at s
SessionRecords(rows, s) ==
    {i \in Indices(rows) : rows[i].Category # "WASTED" /\ rows[i].Start_Time = s}

\* a CONFIRM & SAVE press whose save succeeded
ConfirmSucceeded == show_save = TRUE /\ SavedOK \in notice'

\* C7: whatever STOP & LOG and CONFIRM & SAVE presses follow a START TIMER,
\* failed and repeated ones included, the store holds at most one record of
\* that timer session; exactly one as a confirm succeeds; none for a timer
\* that was not stopped and confirmed.
C7_ExactlyOnce ==
    [][/\ \A i \in Indices(store'.logs.rows) :
              Cardinality(SessionRecords(store'.logs.rows,
                              store'.logs.rows[i].Start_Time)) <= 1
       /\ start_time' # None =>
              SessionRecords(store'.logs.rows, start_time') = {}
       /\ ConfirmSucceeded =>
              \E i \in Indices(store'.logs.rows) :
                  /\ SessionRecords(store'.logs.rows, start_time) = {i}
                  /\ store'.logs.rows[i].End_Time = end_time
       /\ \A i \in Indices(store'.logs.rows) :
              (/\ store'.logs.rows[i].Category # "WASTED"
               /\ \A j \in Indices(store.logs.rows) :
                      store.logs.rows[j] # store'.logs.rows[i])
              => /\ ConfirmSucceeded
                 /\ store'.logs.rows[i].Start_Time = start_time]_vars

C7_Witness ==
    /\ SavedOK \in notice
    /\ start_time = None
    /\ timers = 2
    /\ \E i, j \in Indices(store.logs.rows) :
           /\ i < j
           /\ store.logs.rows[i].Category # "WASTED"
           /\ store.logs.rows[j].Category # "WASTED"
           /\ store.logs.rows[j].End_Time = end_time
           /\ store.logs.rows[j].Start_Time < end_time

\* C8: no START TIMER, STOP & LOG or CONFIRM & SAVE removes or alters a
\* record of the stored log, and a successful CONFIRM & SAVE leaves the
\* stored log equal to the log stored before plus the new record, also when
\* load_db fails at confirm time.
C8_AppendOnlyLog ==
    [][/\ Len(store'.logs.rows) >= Len(store.logs.rows)
       /\ SubSeq(store'.logs.rows, 1, Len(store.logs.rows)) = store.logs.rows
       /\ ConfirmSucceeded =>
              /\ Len(store'.logs.rows) = Len(store.logs.rows) + 1
              /\ store'.logs.rows[Len(store'.logs.rows)].Start_Time = start_time
      ]_vars

\* C9: when save_db fails during CONFIRM & SAVE the failure is reported, the
\* store is unchanged and start_time, end_time and show_save are unchanged;
\* the timer goes back to idle only with a successful save.
C9_FailedSaveKeepsPending ==
    [][/\ (show_save = TRUE /\ SaveFailed \in notice') =>
              /\ store' = store
              /\ start_time' = start_time
              /\ end_time' = end_time
              /\ show_save' = TRUE
       /\ ((start_time # None /\ start_time' = None)
              \/ (show_save = TRUE /\ show_save' = FALSE)) =>
              /\ SavedOK \in notice'
              /\ SaveFailed \notin notice'
              /\ store' # store
              /\ start_time' = None
              /\ show_save' = FALSE]_vars

C9_Witness ==
    /\ show_save = TRUE
    /\ SaveFailed \in notice
    /\ start_time # None
    /\ end_time > start_time
    /\ SessionRecords(store.logs.rows, start_time) = {}

IsRevisionPass(old_status, new_status) ==
    HasRev(new_status) /\ new_status # old_status

\* C10: each topic's Rev_Count follows the revision passes: a confirmed
\* session adds one exactly when it moves the Status to a new 'Rev n' value,
\* nothing when it selects another status or the status the topic has; a
\* topic created with a revision status starts at one; it never decreases.
C10_RevCountBookkeeping ==
    [][\A i \in Indices(store'.master.rows) :
          LET new == store'.master.rows[i]
          IN  IF /\ i <= Len(store.master.rows)
                 /\ store.master.rows[i].Subject = new.Subject
                 /\ store.master.rows[i].Topic = new.Topic
              THEN LET old == store.master.rows[i]
                   IN  new.Rev_Count = old.Rev_Count +
                           (IF /\ ConfirmSucceeded
                               /\ HasStudy(cat)
                               /\ new # old
                               /\ IsRevisionPass(old.Status, new.Status)
                            THEN 1 ELSE 0)
              ELSE new.Rev_Count = IF HasRev(new.Status) THEN 1 ELSE 0]_vars

====
